---- MODULE Spec2Model ----
(***************************************************************************)
(* A model of the binary-heap priority queue of src/src/lib.rs.            *)
(*                                                                         *)
(* The queue is the pair (data, mode) of struct PriorityQueue; data is a   *)
(* Vec, whose capacity is modelled as well since new() takes a size hint.  *)
(* insert and take are modelled at the grain of one loop iteration: the    *)
(* action that starts a call does everything up to the loop, and every     *)
(* further step evaluates the loop guard and runs the loop body once.      *)
(* Indices are the 0-based indices of the source; data[i] of the source is *)
(* At(data, i) here.                                                       *)
(*                                                                         *)
(* Items are opaque to the code (R is unconstrained and never inspected),  *)
(* so the k-th inserted item is the number k: entries can be told apart.   *)
(***************************************************************************)
EXTENDS Integers, Sequences, FiniteSets, TLC

\* Bounds of the model.
MaxInserts == 4
MaxPriority == 3

MaxTakes == MaxInserts + 1
Priorities == 1..MaxPriority
Modes == {"MinimizeHead", "MaximizeHead"}
SizeHints == {0, 1, MaxInserts}

\* Option::None (of an item, of an index) and a panic of the running call.
None == -1
Panic == -2

VARIABLES
  data,          \* PriorityQueue.data, a sequence of PriorityItem records
  mode,          \* PriorityQueue.mode
  capacity,      \* the capacity of the Vec behind data
  conforming,    \* whether T's comparison operators are a total order
  pc,            \* "idle", "sift_up", "sift_down" or "panicked"
  idx,           \* the cursor of the running loop
  heap_len,      \* take's heap_len, the length captured before the pop
  result_value,  \* take's result_value: the popped entry, or None
  exit,          \* how the last loop iteration ended
  swaps,         \* swaps done by the loop of the running (or last) call
  args,          \* the mode new() was called with
  log,           \* the priorities inserted so far; item k has priority log[k]
  out,           \* what every take call returned, in order (an item or None)
  pre,           \* data as it was when the running (or last) call started
  last_op,       \* "new", "insert" or "take": the running (or last) call
  phase,         \* "fill": no take yet; "drain": takes after the inserts; "mixed"
  twin           \* a second queue, built with another size hint (SpecHint)

vars == <<data, mode, capacity, conforming, pc, idx, heap_len, result_value,
          exit, swaps, args, log, out, pre, last_op, phase, twin>>

----------------------------------------------------------------------------
\* Vec

At(d, i) == d[i + 1]

IndexInBounds(d, i) == 0 <= i /\ i < Len(d)

\* (mutant) the priorities change places, the items stay
Swap_priorities(d, i, j) ==
  [d EXCEPT ![i + 1].priority = d[j + 1].priority,
            ![j + 1].priority = d[i + 1].priority]

\* (mutant) the second slot is overwritten, the first kept
Swap_overwrite(d, i, j) == [d EXCEPT ![j + 1] = d[i + 1]]

Swap(d, i, j) == [d EXCEPT ![i + 1] = d[j + 1], ![j + 1] = d[i + 1]]

\* (mutant) the first entry removed instead of the last
Pop_front(d) == SubSeq(d, 2, Len(d))

\* (mutant) the length is left as it was
Pop_nothing(d) == d

Pop(d) == SubSeq(d, 1, Len(d) - 1)

Max2(a, b) == IF a >= b THEN a ELSE b

with_capacity(size_hint) == [data |-> <<>>, capacity |-> size_hint]

\* (mutant) the size hint taken as a limit: a push on a full Vec is dropped
push_fixed(v, e) ==
  IF Len(v.data) = v.capacity THEN v
  ELSE [data |-> Append(v.data, e), capacity |-> v.capacity]

\* Vec::push: a full Vec grows (amortised doubling) before it appends.
push(v, e) ==
  [data |-> Append(v.data, e),
   capacity |-> IF Len(v.data) = v.capacity
                THEN Max2(2 * v.capacity, Len(v.data) + 1)
                ELSE v.capacity]

----------------------------------------------------------------------------
\* PriorityItem and the comparison operators of T

PriorityItem(item, priority) == [item |-> item, priority |-> priority]

\* The possible results of a > b and of a < b. A conforming T compares as the
\* integers do; for any other T each evaluation may give either answer.
PriorityGt(a, b) == IF conforming THEN {a > b} ELSE BOOLEAN

PriorityLt(a, b) == IF conforming THEN {a < b} ELSE BOOLEAN

----------------------------------------------------------------------------
\* The index helpers

\* (mutant) the division without the subtraction: i / 2
parent_halved(i) == i \div 2

\* (mutant) the previous index instead of the parent
parent_previous(i) == i - 1

parent(i) == (i - 1) \div 2

\* (mutant) the children of a tree whose root is at index 1
children_one_based(i) == <<i * 2, (i * 2) + 1>>

children(i) == <<(i * 2) + 1, (i * 2) + 2>>

\* (mutant) the comparisons not strict: >= and <= for > and <
violates_non_strict(d, p, c) ==
  CASE mode = "MinimizeHead" -> {At(d, p).priority >= At(d, c).priority}
    [] mode = "MaximizeHead" -> {At(d, p).priority <= At(d, c).priority}

\* (mutant) the two modes' comparisons exchanged
violates_modes_exchanged(d, p, c) ==
  CASE mode = "MinimizeHead" -> PriorityLt(At(d, p).priority, At(d, c).priority)
    [] mode = "MaximizeHead" -> PriorityGt(At(d, p).priority, At(d, c).priority)

\* The possible results of violates_heap_property on two indices in bounds.
violates_heap_property(d, p, c) ==
  CASE mode = "MinimizeHead" -> PriorityGt(At(d, p).priority, At(d, c).priority)
    [] mode = "MaximizeHead" -> PriorityLt(At(d, p).priority, At(d, c).priority)

\* The possible results of best_child: None, Some(index) as the index, or
\* Panic when the comparison of the two children indexes out of bounds.
best_child_len(d, i, len) ==
  LET child1 == children(i)[1]
      child2 == children(i)[2]
  IN IF len <= child1 THEN {None}
     ELSE IF len <= child2 THEN {child1}
     ELSE IF ~IndexInBounds(d, child1) \/ ~IndexInBounds(d, child2) THEN {Panic}
     ELSE {IF v THEN child2 ELSE child1 : v \in violates_heap_property(d, child1, child2)}

\* (mutant) the two existence tests one off: < where the code has <=
best_child_off_by_one(d, i) ==
  LET child1 == children(i)[1]
      child2 == children(i)[2]
  IN IF Len(d) < child1 THEN {None}
     ELSE IF Len(d) < child2 THEN {child1}
     ELSE IF ~IndexInBounds(d, child1) \/ ~IndexInBounds(d, child2) THEN {Panic}
     ELSE {IF v THEN child2 ELSE child1 : v \in violates_heap_property(d, child1, child2)}

\* (mutant) the comparison of the two children turned round: the second child
\* unless the first one strictly wins, so that a tie goes to the second
best_child_ties_second(d, i) ==
  LET child1 == children(i)[1]
      child2 == children(i)[2]
  IN IF Len(d) <= child1 THEN {None}
     ELSE IF Len(d) <= child2 THEN {child1}
     ELSE {IF v THEN child1 ELSE child2 : v \in violates_heap_property(d, child2, child1)}

\* (mutant) the first child whenever there is one, whatever the second holds
best_child_first(d, i) ==
  IF Len(d) <= children(i)[1] THEN {None} ELSE {children(i)[1]}

\* (mutant) the children looked for below the length take captured before
\* its pop, one more than the length of the live sequence
best_child_stale(d, i) == best_child_len(d, i, Len(d) + 1)

best_child(d, i) == best_child_len(d, i, Len(d))

----------------------------------------------------------------------------
\* The body of insert's loop at cursor i: the possible outcomes, each with
\* the status "loop" (swapped, go on), "no_violation" (break) or "panic".
\* parent(0) panics in either build: idx - 1 overflows (a panic where overflow
\* is checked) or wraps to an index far outside data (a panic of the index).
sift_up_body(d, i) ==
  LET p == parent(i)
  IN IF i - 1 < 0 \/ ~IndexInBounds(d, p) \/ ~IndexInBounds(d, i)
     THEN {[data |-> d, idx |-> i, status |-> "panic"]}
     ELSE {IF v THEN [data |-> Swap(d, p, i), idx |-> p, status |-> "loop"]
                ELSE [data |-> d, idx |-> i, status |-> "no_violation"]
           : v \in violates_heap_property(d, p, i)}

\* (mutant) the loop without its guard: the body runs at the root too
sift_up_unguarded(d, i) == sift_up_body(d, i)

\* One evaluation of the guard and the body of insert's loop, from cursor i:
\* the outcomes of the body, or "root" when the guard is false.
sift_up_iter(d, i) ==
  IF i # 0
  THEN sift_up_body(d, i)
  ELSE {[data |-> d, idx |-> i, status |-> "root"]}

\* (mutant) take without its loop: the entry moved to the root stays there
sift_down_skipped(d, i, hl) == {[data |-> d, idx |-> i, status |-> "no_child"]}

\* The body of take's loop at cursor i: "loop", "no_child" or "no_violation"
\* (the two breaks), or "panic".
sift_down_body(d, i) ==
  UNION {
    IF child = Panic THEN {[data |-> d, idx |-> i, status |-> "panic"]}
    ELSE IF child = None THEN {[data |-> d, idx |-> i, status |-> "no_child"]}
    ELSE IF ~IndexInBounds(d, i) \/ ~IndexInBounds(d, child)
    THEN {[data |-> d, idx |-> i, status |-> "panic"]}
    ELSE {IF v THEN [data |-> Swap(d, i, child), idx |-> child, status |-> "loop"]
               ELSE [data |-> d, idx |-> i, status |-> "no_violation"]
          : v \in violates_heap_property(d, i, child)}
  : child \in best_child(d, i)}

\* (mutant) the guard corrected for the pop: idx < heap_len - 1
sift_down_live_guard(d, i, hl) ==
  IF i < hl - 1
  THEN sift_down_body(d, i)
  ELSE {[data |-> d, idx |-> i, status |-> "guard"]}

\* One evaluation of the guard and the body of take's loop, from cursor i:
\* the outcomes of the body, or "guard" when the guard is false.
sift_down_iter(d, i, hl) ==
  IF i < hl
  THEN sift_down_body(d, i)
  ELSE {[data |-> d, idx |-> i, status |-> "guard"]}

----------------------------------------------------------------------------
\* insert and take run to completion on a queue record (used for the twin).

RECURSIVE sift_up(_, _)
sift_up(d, i) ==
  LET n == CHOOSE n \in sift_up_iter(d, i) : TRUE
  IN IF n.status = "loop" THEN sift_up(n.data, n.idx) ELSE n.data

RECURSIVE sift_down(_, _, _)
sift_down(d, i, hl) ==
  LET n == CHOOSE n \in sift_down_iter(d, i, hl) : TRUE
  IN IF n.status = "loop" THEN sift_down(n.data, n.idx, hl) ELSE n.data

new(size_hint) ==
  [data |-> <<>>, capacity |-> with_capacity(size_hint).capacity, result |-> None]

insert(q, item, priority) ==
  LET v == push([data |-> q.data, capacity |-> q.capacity], PriorityItem(item, priority))
  IN [data |-> sift_up(v.data, Len(v.data) - 1), capacity |-> v.capacity,
      result |-> q.result]

take(q) ==
  IF Len(q.data) = 0
  THEN [q EXCEPT !.result = None]
  ELSE LET swapped == Swap(q.data, 0, Len(q.data) - 1)
       IN [data |-> sift_down(Pop(swapped), 0, Len(q.data)),
           capacity |-> q.capacity,
           result |-> At(swapped, Len(q.data) - 1).item]

----------------------------------------------------------------------------
\* The state after PriorityQueue::new(size_hint, m)

InitQueue ==
  /\ \E size_hint \in SizeHints, m \in Modes :
       /\ args = [mode |-> m]
       /\ mode = m
       /\ data = with_capacity(size_hint).data
       /\ capacity = with_capacity(size_hint).capacity
  /\ pc = "idle"
  /\ idx = 0
  /\ heap_len = 0
  /\ result_value = None
  /\ exit = "none"
  /\ swaps = 0
  /\ log = <<>>
  /\ out = <<>>
  /\ pre = <<>>
  /\ last_op = "new"
  /\ phase = "fill"

NoTwin == [data |-> <<>>, capacity |-> 0, result |-> None, live |-> FALSE]

Init ==
  /\ InitQueue
  /\ conforming = TRUE
  /\ twin = NoTwin

\* The calls reach the twin, when there is one, as whole operations.
TwinInsert(item, priority) ==
  IF twin.live
  THEN [live |-> TRUE] @@ insert([data |-> twin.data, capacity |-> twin.capacity,
                                  result |-> twin.result], item, priority)
  ELSE twin

TwinTake ==
  IF twin.live
  THEN [live |-> TRUE] @@ take([data |-> twin.data, capacity |-> twin.capacity,
                                result |-> twin.result])
  ELSE twin

\* insert(item, priority) up to its loop: the push and the cursor.
Insert(priority) ==
  /\ pc = "idle"
  /\ Len(log) < MaxInserts
  /\ LET item == Len(log) + 1
         v == push([data |-> data, capacity |-> capacity], PriorityItem(item, priority))
     IN /\ data' = v.data
        /\ capacity' = v.capacity
        /\ idx' = Len(v.data) - 1
        /\ log' = Append(log, priority)
        /\ twin' = TwinInsert(item, priority)
  /\ pc' = "sift_up"
  /\ pre' = data
  /\ last_op' = "insert"
  /\ phase' = IF phase = "fill" THEN "fill" ELSE "mixed"
  /\ swaps' = 0
  /\ exit' = "none"
  /\ UNCHANGED <<mode, conforming, heap_len, result_value, args, out>>

\* One iteration of insert's loop; insert returns when the loop is left.
SiftUp ==
  /\ pc = "sift_up"
  /\ \E n \in sift_up_iter(data, idx) :
       /\ data' = n.data
       /\ idx' = n.idx
       /\ exit' = n.status
       /\ swaps' = IF n.status = "loop" THEN swaps + 1 ELSE swaps
       /\ pc' = CASE n.status = "loop" -> "sift_up"
                  [] n.status = "panic" -> "panicked"
                  [] OTHER -> "idle"
  /\ UNCHANGED <<mode, capacity, conforming, heap_len, result_value, args, log,
                 out, pre, last_op, phase, twin>>

\* (mutant) take without its early return: on an empty heap heap_len - 1
\* underflows and the swap that follows panics
Take_no_early_return ==
  /\ pc = "idle"
  /\ Len(out) < MaxTakes
  /\ heap_len' = Len(data)
  /\ pre' = data
  /\ last_op' = "take"
  /\ phase' = IF phase = "fill" THEN "drain" ELSE phase
  /\ swaps' = 0
  /\ twin' = twin
  /\ IF Len(data) = 0
     THEN /\ pc' = "panicked"
          /\ exit' = "panic"
          /\ UNCHANGED <<data, idx, result_value, out>>
     ELSE LET swapped == Swap(data, 0, Len(data) - 1)
          IN /\ result_value' = At(swapped, Len(swapped) - 1)
             /\ data' = Pop(swapped)
             /\ idx' = 0
             /\ pc' = "sift_down"
             /\ exit' = "none"
             /\ UNCHANGED out
  /\ UNCHANGED <<mode, capacity, conforming, args, log>>

\* (mutant) take's early return rebuilds the queue, in the first mode of the
\* enumeration
Take_resets_mode ==
  /\ pc = "idle"
  /\ Len(out) < MaxTakes
  /\ heap_len' = Len(data)
  /\ pre' = data
  /\ last_op' = "take"
  /\ phase' = IF phase = "fill" THEN "drain" ELSE phase
  /\ swaps' = 0
  /\ twin' = twin
  /\ IF Len(data) = 0
     THEN /\ result_value' = None
          /\ out' = Append(out, None)
          /\ exit' = "empty"
          /\ mode' = "MinimizeHead"
          /\ UNCHANGED <<data, idx, pc>>
     ELSE LET swapped == Swap(data, 0, Len(data) - 1)
          IN /\ result_value' = At(swapped, Len(swapped) - 1)
             /\ data' = Pop(swapped)
             /\ idx' = 0
             /\ pc' = "sift_down"
             /\ exit' = "none"
             /\ UNCHANGED <<out, mode>>
  /\ UNCHANGED <<capacity, conforming, args, log>>

\* take() up to its loop: the early return on an empty heap, or the swap of
\* the root with the last entry, the pop and the cursor.
Take ==
  /\ pc = "idle"
  /\ Len(out) < MaxTakes
  /\ heap_len' = Len(data)
  /\ pre' = data
  /\ last_op' = "take"
  /\ phase' = IF phase = "fill" THEN "drain" ELSE phase
  /\ swaps' = 0
  /\ twin' = TwinTake
  /\ IF Len(data) = 0
     THEN /\ result_value' = None
          /\ out' = Append(out, None)
          /\ exit' = "empty"
          /\ UNCHANGED <<data, idx, pc>>
     ELSE LET swapped == Swap(data, 0, Len(data) - 1)
          IN /\ result_value' = At(swapped, Len(swapped) - 1)
             /\ data' = Pop(swapped)
             /\ idx' = 0
             /\ pc' = "sift_down"
             /\ exit' = "none"
             /\ UNCHANGED out
  /\ UNCHANGED <<mode, capacity, conforming, args, log>>

\* One iteration of take's loop; when the loop is left take returns the item
\* of result_value.
SiftDown ==
  /\ pc = "sift_down"
  /\ \E n \in sift_down_iter(data, idx, heap_len) :
       /\ data' = n.data
       /\ idx' = n.idx
       /\ exit' = n.status
       /\ swaps' = IF n.status = "loop" THEN swaps + 1 ELSE swaps
       /\ pc' = CASE n.status = "loop" -> "sift_down"
                  [] n.status = "panic" -> "panicked"
                  [] OTHER -> "idle"
       /\ out' = IF n.status \in {"loop", "panic"} THEN out
                 ELSE Append(out, result_value.item)
  /\ UNCHANGED <<mode, capacity, conforming, heap_len, result_value, args, log,
                 pre, last_op, phase, twin>>

Next ==
  \/ \E priority \in Priorities : Insert(priority)
  \/ SiftUp
  \/ Take
  \/ SiftDown

Spec == Init /\ [][Next]_vars

\* The same queue over a T whose comparisons are inconsistent.
InitAnyOrder ==
  /\ InitQueue
  /\ conforming = FALSE
  /\ twin = NoTwin

SpecAnyOrder == InitAnyOrder /\ [][Next]_vars

\* Two queues of the same mode built with different size hints and driven by
\* the same calls.
InitHint ==
  /\ InitQueue
  /\ conforming = TRUE
  /\ \E size_hint \in SizeHints :
       /\ size_hint # capacity
       /\ twin = [live |-> TRUE] @@ new(size_hint)

SpecHint == InitHint /\ [][Next]_vars

----------------------------------------------------------------------------
\* What the properties below speak of

Idle == pc = "idle"

\* what the last take call returned (None before the first)
LastResult == IF out = <<>> THEN None ELSE out[Len(out)]

\* the items the take calls have returned
Returned == {out[k] : k \in 1..Len(out)} \ {None}

----------------------------------------------------------------------------
\* C1: on return from every insert and every take, each non-root index i of
\* data satisfies the heap property with its parent at (i-1)/2: the parent's
\* priority is <= the child's under MinimizeHead and >= under MaximizeHead.
C1_HeapInvariant ==
  Idle =>
    \A i \in 1..(Len(data) - 1) :
      /\ mode = "MinimizeHead" =>
           At(data, (i - 1) \div 2).priority <= At(data, i).priority
      /\ mode = "MaximizeHead" =>
           At(data, (i - 1) \div 2).priority >= At(data, i).priority

\* a take that had to swap returned, leaving three entries of two levels
C1_Witness ==
  /\ Idle
  /\ last_op = "take"
  /\ swaps >= 1
  /\ Len(data) >= 3
  /\ At(data, 0).priority # At(data, 2).priority

----------------------------------------------------------------------------
\* C2: every take on a non-empty queue returns the item of an entry whose
\* priority is the minimum (MinimizeHead) or the maximum (MaximizeHead) of
\* the priorities held in the queue immediately before that take.
C2_TakeReturnsBest ==
  (Idle /\ last_op = "take" /\ pre # <<>>) =>
    \E k \in 1..Len(pre) :
      /\ pre[k].item = LastResult
      /\ \A j \in 1..Len(pre) :
           /\ mode = "MinimizeHead" => pre[k].priority <= pre[j].priority
           /\ mode = "MaximizeHead" => pre[k].priority >= pre[j].priority

\* the example of the tests: priorities 10 < 20 < 30 inserted in that order
\* and taken three times from a MaximizeHead queue: items 3, 2, 1
C2_Witness ==
  /\ Idle
  /\ mode = "MaximizeHead"
  /\ log = <<1, 2, 3>>
  /\ out = <<3, 2, 1>>

----------------------------------------------------------------------------
\* C3: N entries inserted (priorities arbitrary, repeats allowed) and then
\* take called repeatedly: exactly N takes return an item, every later one
\* returns None, and the priorities of the returned entries are non-decreasing
\* under MinimizeHead and non-increasing under MaximizeHead.
C3_DrainSorted ==
  phase \in {"fill", "drain"} =>
    /\ \A k \in 1..Len(out) :
         IF k <= Len(log) THEN out[k] \in 1..Len(log) ELSE out[k] = None
    /\ \A k \in 1..(Len(out) - 1) :
         k + 1 <= Len(log) =>
           /\ mode = "MinimizeHead" => log[out[k]] <= log[out[k + 1]]
           /\ mode = "MaximizeHead" => log[out[k]] >= log[out[k + 1]]

\* four entries, two of them with the same priority, not inserted in order,
\* drained to the end and taken from once more
C3_Witness ==
  /\ phase = "drain"
  /\ Len(log) = 4
  /\ log[1] = log[3]
  /\ log[2] < log[1]
  /\ log[4] > log[1]
  /\ Len(out) = 5
  /\ out[5] = None

----------------------------------------------------------------------------
\* C4: N entries with pairwise distinct priorities inserted in any order and
\* then drained: the k-th take returns the item inserted with the k-th
\* smallest (MinimizeHead) or k-th largest (MaximizeHead) priority, and so
\* every inserted item is returned exactly once.
DistinctPriorities ==
  \A i, j \in 1..Len(log) : i # j => log[i] # log[j]

C4_ItemsKeepPriority ==
  (phase \in {"fill", "drain"} /\ DistinctPriorities) =>
    \A k \in 1..Len(out) :
      k <= Len(log) =>
        /\ out[k] \in 1..Len(log)
        /\ mode = "MinimizeHead" =>
             Cardinality({j \in 1..Len(log) : log[j] < log[out[k]]}) = k - 1
        /\ mode = "MaximizeHead" =>
             Cardinality({j \in 1..Len(log) : log[j] > log[out[k]]}) = k - 1

\* three distinct priorities inserted out of order and drained from a
\* MinimizeHead queue: the items come back by priority
C4_Witness ==
  /\ phase = "drain"
  /\ mode = "MinimizeHead"
  /\ log = <<2, 3, 1>>
  /\ out = <<3, 1, 2>>

----------------------------------------------------------------------------
\* C5: take on a queue with no entries (fresh, or emptied by earlier takes)
\* returns None at once and leaves the queue as new() made it: no entries,
\* the mode it was built with, nothing running.
C5_EmptyTake ==
  (last_op = "take" /\ pre = <<>>) =>
    /\ pc = "idle"
    /\ exit = "empty"
    /\ LastResult = None
    /\ data = <<>>
    /\ mode = args.mode

\* a queue that held two entries, was emptied, and was taken from again
C5_Witness ==
  /\ last_op = "take"
  /\ pre = <<>>
  /\ Len(log) >= 2
  /\ Len(out) = Len(log) + 1

----------------------------------------------------------------------------
\* C6: after any inserts and takes, the takes that returned an item plus the
\* entries in the queue are as many as the inserts; an insert lengthens the
\* queue by one, a take on a non-empty queue shortens it by one, and a take
\* on an empty queue leaves it at length 0.
SuccessfulTakes == Cardinality({k \in 1..Len(out) : out[k] # None})

C6_SizeConservation ==
  Idle =>
    /\ SuccessfulTakes + Len(data) = Len(log)
    /\ last_op = "insert" => Len(data) = Len(pre) + 1
    /\ (last_op = "take" /\ pre # <<>>) => Len(data) = Len(pre) - 1
    /\ (last_op = "take" /\ pre = <<>>) => Len(data) = 0

\* inserts and takes mixed: two takes returned an item, one found the queue
\* empty, and an entry is still held
C6_Witness ==
  /\ Idle
  /\ phase = "mixed"
  /\ SuccessfulTakes >= 2
  /\ Len(out) > SuccessfulTakes
  /\ Len(data) >= 1

----------------------------------------------------------------------------
\* C7: at every step, the entries in the queue are exactly the inserted
\* (item, priority) pairs whose item no take has removed, each held once:
\* the sift loops only move whole entries around.
Removed ==
  Returned \cup (IF pc = "sift_down" THEN {result_value.item} ELSE {})

C7_EntryConservation ==
  /\ {data[k] : k \in 1..Len(data)} =
       {PriorityItem(i, log[i]) : i \in (1..Len(log)) \ Removed}
  /\ Cardinality({data[k] : k \in 1..Len(data)}) = Len(data)

\* in the middle of a sift-down that has swapped, after inserts and takes
C7_Witness ==
  /\ pc = "sift_down"
  /\ swaps >= 1
  /\ phase = "mixed"
  /\ Len(data) >= 3

----------------------------------------------------------------------------
\* C8: over a T whose < and > are an arbitrary relation, no insert and no
\* take panics on an index outside the live sequence, every loop terminates
\* (the cursor stays inside the sequence and moves strictly towards the root,
\* or strictly away from it, with every swap, and a running call can always
\* take its next step), and sizes and entries are conserved; only the order
\* of the returned items is unspecified.
C8_InconsistentOrderSafe ==
  /\ pc # "panicked"
  /\ pc = "sift_up" =>
       /\ IndexInBounds(data, idx)
       /\ swaps + idx <= Len(data) - 1
  /\ pc = "sift_down" =>
       /\ swaps <= idx
       /\ idx = 0 \/ IndexInBounds(data, idx)
  /\ pc \in {"sift_up", "sift_down"} => ENABLED (SiftUp \/ SiftDown)
  /\ Idle => SuccessfulTakes + Len(data) = Len(log)
  /\ C7_EntryConservation

\* a drain of a MinimizeHead queue that returned the four items in an order
\* no conforming T allows: down and then up again
C8_Witness ==
  /\ ~conforming
  /\ Idle
  /\ mode = "MinimizeHead"
  /\ phase = "drain"
  /\ Len(log) = 4
  /\ Len(out) = 4
  /\ None \notin {out[k] : k \in 1..4}
  /\ log[out[1]] > log[out[2]]
  /\ log[out[2]] < log[out[3]]

----------------------------------------------------------------------------
\* C9: every insert and every take terminates within the height of the tree:
\* the sift-up of an insert into n entries swaps at most floor(log2(n+1))
\* times, its cursor one level nearer the root after every swap; the
\* sift-down of a take that leaves m >= 1 entries swaps at most
\* floor(log2(m)) times, its cursor one level deeper after every swap; and a
\* running call can always take its next step.
RECURSIVE Log2(_)
Log2(n) == IF n <= 1 THEN 0 ELSE 1 + Log2(n \div 2)

C9_LogarithmicLoops ==
  /\ last_op = "insert" => swaps <= Log2(Len(pre) + 1)
  /\ (last_op = "take" /\ Len(pre) >= 2) => swaps <= Log2(Len(pre) - 1)
  /\ (last_op = "take" /\ Len(pre) <= 1) => swaps = 0
  /\ pc = "sift_up" => Log2(idx + 1) = Log2(Len(pre) + 1) - swaps
  /\ pc = "sift_down" => Log2(idx + 1) = swaps
  /\ pc \in {"idle", "sift_up", "sift_down"}
  /\ pc = "sift_up" => ENABLED SiftUp
  /\ pc = "sift_down" => ENABLED SiftDown

\* an insert into three entries that swapped twice, all the way to the root
C9_Witness ==
  /\ Idle
  /\ last_op = "insert"
  /\ Len(pre) = 3
  /\ swaps = 2
  /\ idx = 0

----------------------------------------------------------------------------
\* C10: two queues of the same mode built with different size hints and
\* driven by the same calls hold the same entry sequence after every call and
\* return the same result from every take.
C10_HintIrrelevant ==
  (Idle /\ twin.live) =>
    /\ data = twin.data
    /\ LastResult = twin.result

\* a take has returned an item from two entries held by a Vec that had to
\* grow to hold them, while the other queue's Vec never grew
C10_Witness ==
  /\ Idle
  /\ twin.live
  /\ last_op = "take"
  /\ Len(pre) = 2
  /\ LastResult # None
  /\ capacity = 2
  /\ twin.capacity = MaxInserts

----------------------------------------------------------------------------
\* C11: the mode given to new() is the queue's mode ever after: no insert
\* and no take, none of their loop steps and no take on an empty queue
\* changes it.
C11_ModeFixed == mode = args.mode

\* a MaximizeHead queue after inserts, the takes that emptied it, and a take
\* that found it empty
C11_Witness ==
  /\ Idle
  /\ mode = "MaximizeHead"
  /\ Len(log) >= 2
  /\ SuccessfulTakes = Len(log)
  /\ last_op = "take"
  /\ pre = <<>>

----------------------------------------------------------------------------
\* C12: in take's loop the children are looked for below the live length of
\* the sequence, which is one less than the heap_len the loop guard uses:
\* every index given to violates_heap_property or to swap is in bounds,
\* whether the pop left no entry, no child or a single child.
C12_LiveLength ==
  /\ last_op = "take" => pc # "panicked"
  /\ pc = "sift_down" =>
       /\ heap_len = Len(data) + 1
       /\ idx < heap_len
       /\ \A child \in best_child(data, idx) :
            /\ child # Panic
            /\ child # None =>
                 /\ IndexInBounds(data, idx)
                 /\ IndexInBounds(data, child)
            /\ child = None => Len(data) <= (idx * 2) + 1
       /\ Len(data) > (idx * 2) + 2 =>
            /\ IndexInBounds(data, (idx * 2) + 1)
            /\ IndexInBounds(data, (idx * 2) + 2)

\* the single-child case at the root: two entries left, so that index 2 is
\* below heap_len and not below the live length
C12_Witness ==
  /\ pc = "sift_down"
  /\ idx = 0
  /\ Len(data) = 2
  /\ heap_len = 3
  /\ best_child(data, idx) = {1}

----------------------------------------------------------------------------
\* C13: best_child(i) over a sequence of length len is None when
\* 2i+1 >= len, is 2i+1 when 2i+1 < len <= 2i+2, and with both children is
\* the child whose priority wins under the mode (the smaller for
\* MinimizeHead, the larger for MaximizeHead), the first child on a tie; the
\* priority at i plays no part. Stated of every index of the sequences the
\* queue goes through.
BestChildAsClaimed(d, i) ==
  IF (2 * i) + 1 >= Len(d) THEN None
  ELSE IF Len(d) <= (2 * i) + 2 THEN (2 * i) + 1
  ELSE IF mode = "MinimizeHead"
       THEN (IF d[(2 * i) + 3].priority < d[(2 * i) + 2].priority
             THEN (2 * i) + 2 ELSE (2 * i) + 1)
       ELSE (IF d[(2 * i) + 3].priority > d[(2 * i) + 2].priority
             THEN (2 * i) + 2 ELSE (2 * i) + 1)

----------------------------------------------------------------------------
\* C14: take on a non-empty queue returns the item of the entry that was at
\* index 0 before the call, whatever entries tie with it; the entry that was
\* at the last index is put at the root, the others keep their places, and
\* the cursor of the sift-down follows that entry.
C14_RootOutLastIn ==
  (last_op = "take" /\ pre # <<>>) =>
    /\ result_value = pre[1]
    /\ Idle => LastResult = pre[1].item
    /\ (pc = "sift_down" /\ swaps = 0) =>
         /\ idx = 0
         /\ Len(data) = Len(pre) - 1
         /\ \A k \in 2..Len(data) : data[k] = pre[k]
    /\ (pc \in {"idle", "sift_down"} /\ Len(pre) >= 2) =>
         At(data, idx) = pre[Len(pre)]

\* a take has returned the root's item although the entry next to the root
\* had the same priority
C14_Witness ==
  /\ Idle
  /\ last_op = "take"
  /\ Len(pre) >= 3
  /\ pre[2].priority = pre[1].priority
  /\ LastResult = pre[1].item

----------------------------------------------------------------------------
\* C15: equal priorities never cause a swap. violates_heap_property is false
\* of two equal priorities in either mode; an insert whose priority equals
\* its parent's leaves the new entry at the index it was appended at, with no
\* swap; and a sift-down stops at a cursor whose priority equals that of its
\* best child.
C15_TiesStay ==
  /\ \A p, c \in 0..(Len(data) - 1) :
       At(data, p).priority = At(data, c).priority =>
         violates_heap_property(data, p, c) = {FALSE}
  /\ ( /\ last_op = "insert"
       /\ pc # "panicked"
       /\ Len(pre) >= 1
       /\ log[Len(log)] = At(pre, (Len(pre) - 1) \div 2).priority ) =>
       /\ swaps = 0
       /\ idx = Len(pre)
       /\ At(data, Len(pre)) = PriorityItem(Len(log), log[Len(log)])
       /\ SubSeq(data, 1, Len(pre)) = pre
       /\ Idle => exit = "no_violation"
  /\ pc = "sift_down" =>
       \A child \in best_child(data, idx) :
         (child >= 0 /\ At(data, child).priority = At(data, idx).priority) =>
           \A n \in sift_down_iter(data, idx, heap_len) :
             n.status = "no_violation" /\ n.data = data /\ n.idx = idx

\* an insert into three entries with the priority of its parent at index 1
\* has returned: the new entry is at index 3
C15_Witness ==
  /\ Idle
  /\ last_op = "insert"
  /\ Len(pre) = 3
  /\ log[Len(log)] = At(pre, 1).priority
  /\ At(pre, 0).priority # At(pre, 1).priority
  /\ swaps = 0
  /\ idx = 3

\* take's loop at a cursor whose best child has the cursor's priority
C15_TieBelow ==
  /\ pc = "sift_down"
  /\ \E child \in best_child(data, idx) :
       child >= 0 /\ At(data, child).priority = At(data, idx).priority

----------------------------------------------------------------------------
\* C16: insert's loop evaluates parent(i) only with i # 0, so that i - 1
\* never underflows, also when the queue was empty and the new index is 0;
\* the loop is left as soon as the cursor is the root or the cursor and its
\* parent do not violate the heap property.
C16_ParentOfNonRoot ==
  /\ last_op = "insert" => pc # "panicked"
  /\ pc = "sift_up" =>
       /\ IndexInBounds(data, idx)
       /\ \A n \in sift_up_iter(data, idx) :
            /\ n.status \in {"root", "no_violation", "loop"}
            /\ n.status = "root" <=> idx = 0
            /\ idx # 0 =>
                 /\ idx - 1 >= 0
                 /\ n.status = "loop" <=>
                      IF mode = "MinimizeHead"
                      THEN At(data, (idx - 1) \div 2).priority > At(data, idx).priority
                      ELSE At(data, (idx - 1) \div 2).priority < At(data, idx).priority
  /\ (Idle /\ last_op = "insert") =>
       /\ exit \in {"root", "no_violation"}
       /\ exit = "root" <=> idx = 0

\* an insert into an empty queue has returned: the new index was 0 and the
\* loop was left at its guard
C16_Witness ==
  /\ Idle
  /\ last_op = "insert"
  /\ pre = <<>>
  /\ exit = "root"
  /\ idx = 0
  /\ swaps = 0

----------------------------------------------------------------------------
\* C17: inside a call the heap invariant is broken at the cursor at most: at
\* every step of insert's sift-up every parent/child pair other than
\* (parent(cursor), cursor) satisfies the heap property, and at every step of
\* take's sift-down every pair other than (cursor, 2*cursor+1) and
\* (cursor, 2*cursor+2) does.
PairInOrder(d, i) ==
  IF mode = "MinimizeHead"
  THEN At(d, (i - 1) \div 2).priority <= At(d, i).priority
  ELSE At(d, (i - 1) \div 2).priority >= At(d, i).priority

C17_BreakAtCursorOnly ==
  /\ pc = "sift_up" =>
       \A i \in 1..(Len(data) - 1) : i # idx => PairInOrder(data, i)
  /\ pc = "sift_down" =>
       \A i \in 1..(Len(data) - 1) :
         (i # (2 * idx) + 1 /\ i # (2 * idx) + 2) => PairInOrder(data, i)

\* a sift-up that has swapped once, from index 3 to index 1, where the new
\* entry still beats the root
C17_Witness ==
  /\ pc = "sift_up"
  /\ swaps = 1
  /\ idx = 1
  /\ ~PairInOrder(data, 1)

\* a sift-down at the root of three entries, where the entry brought from the
\* end loses against both children
C17_BrokenBelowRoot ==
  /\ pc = "sift_down"
  /\ idx = 0
  /\ Len(data) = 3
  /\ ~PairInOrder(data, 1)
  /\ ~PairInOrder(data, 2)

----------------------------------------------------------------------------
\* C18: insert into a queue of length n changes only positions on the
\* ancestor path of index n (n, parent(n), ..., 0): the new entry is at the
\* cursor, which is on the path; the path positions below the cursor hold
\* the entry their parent held, i.e. each displaced ancestor has moved down
\* one step of the path; the path positions above the cursor and every
\* position off the path hold what they held before.
RECURSIVE AncestorPath(_)
AncestorPath(i) == IF i <= 0 THEN {0} ELSE {i} \cup AncestorPath((i - 1) \div 2)

C18_InsertFrame ==
  (last_op = "insert" /\ pc \in {"sift_up", "idle"}) =>
    LET n == Len(pre)
        path == AncestorPath(n)
    IN /\ Len(data) = n + 1
       /\ idx \in path
       /\ At(data, idx) = PriorityItem(Len(log), log[Len(log)])
       /\ \A i \in 0..n :
            /\ i \notin path => At(data, i) = At(pre, i)
            /\ (i \in path /\ i > idx) => At(data, i) = At(pre, (i - 1) \div 2)
            /\ (i \in path /\ i < idx) => At(data, i) = At(pre, i)

\* an insert into three entries has returned after one swap: the new entry
\* is at index 1, the entry that was there is at index 3, and indices 0 and
\* 2 are as they were
C18_Witness ==
  /\ Idle
  /\ last_op = "insert"
  /\ Len(pre) = 3
  /\ swaps = 1
  /\ idx = 1
  /\ At(data, 3) = At(pre, 1)

----------------------------------------------------------------------------
\* C19: in take the loop guard idx < heap_len, with the length captured
\* before the pop, is true whenever it is evaluated: the sift-down loop is
\* always left by one of its two breaks (no child, or no violation), never
\* by its guard.
C19_GuardNeverFalse ==
  /\ exit # "guard"
  /\ pc = "sift_down" =>
       /\ idx < heap_len
       /\ \A n \in sift_down_iter(data, idx, heap_len) : n.status # "guard"
  /\ (Idle /\ last_op = "take" /\ pre # <<>>) =>
       exit \in {"no_child", "no_violation"}

\* a take has returned after a swap, its loop left at a cursor below the
\* root that has no child
C19_Witness ==
  /\ Idle
  /\ last_op = "take"
  /\ swaps = 1
  /\ idx >= 1
  /\ exit = "no_child"

\* a take of the only entry has returned: the guard 0 < 1 held over an empty
\* sequence and the loop was left for want of a child
C19_LastEntryTaken ==
  /\ Idle
  /\ last_op = "take"
  /\ Len(pre) = 1
  /\ exit = "no_child"

====
